---- MODULE Spec2Model ----
(***************************************************************************)
(* Traffic light controller (traffic_controller.cpp).                      *)
(*                                                                         *)
(* Three execution contexts share one SharedState:                         *)
(*   controllerThread  - the phase state machine (Timing Authority)        *)
(*   inputThread       - reads command lines (Request Source)              *)
(*   main              - joins the two threads                             *)
(* Every step of a thread between two accesses of shared state is one      *)
(* action; the mutex is modelled by its owner.                             *)
(***************************************************************************)
EXTENDS Integers, Sequences, FiniteSets, TLC

VARIABLES
    phase,          \* SharedState::phase
    pedRequested,   \* SharedState::pedRequested
    running,        \* SharedState::running (atomic)
    mtx,            \* SharedState::mtx : "free", "controller" or "input"
    cpc,            \* controllerThread: position in the code
    snap,           \* controllerThread: Snapshot snap (phase, pedRequested)
    holdSec,        \* controllerThread: int holdSec
    i,              \* controllerThread: loop counter of the hold loop
    out,            \* console: the last status line printed (none at start)
    ipc,            \* inputThread: position in the code
    line,           \* inputThread: std::string line
    mpc,            \* main: position in the code
    \* ---- observers (written, never read, by the program's actions) ----
    pLines,         \* number of "p" lines read so far (saturating)
    pedSets,        \* number of false -> true changes of pedRequested (sat.)
    walkEntries,    \* number of entries into Ped_Walk (saturating)
    walkFrom,       \* outcome of the latest all-red gate check
    sinceGate,      \* 1-second slices slept since the latest all-red gate check
    sinceNSGreen,   \* 1-second slices slept since NS_Green was last entered
    slicesAfterStop \* 1-second slices completed while running was false

vars == <<phase, pedRequested, running, mtx, cpc, snap, holdSec, i, out,
          ipc, line, mpc, pLines, pedSets, walkEntries, walkFrom,
          sinceGate, sinceNSGreen, slicesAfterStop>>

ctrlVars == <<cpc, snap, holdSec, i, out>>
inputVars == <<ipc, line, pLines>>
obsVars == <<pedSets, walkEntries, walkFrom, sinceGate, sinceNSGreen,
             slicesAfterStop>>

----
\* Bounds of the model
MaxPLines == 3      \* saturation of the request observers
CapSlices == 40     \* saturation of the slice observers
CapStop == 3        \* saturation of slicesAfterStop

Min(a, b) == IF a < b THEN a ELSE b

----
\* enum class Phase / enum class Light
Phase == {"NS_Green", "NS_Yellow", "All_Red_1", "EW_Green", "EW_Yellow",
          "All_Red_2", "Ped_Walk"}
Light == {"Red", "Yellow", "Green"}

\* struct Config, default member initialisers
nsGreenSec == 10
nsYellowSec == 3
ewGreenSec == 10
ewYellowSec == 3
allRedSec == 1
pedWalkSec == 6

\* Lines the input thread can read; "x" stands for any other non-empty line
Lines == {"p", "q", "quit", "exit", "", "x"}
QuitLines == {"q", "quit", "exit"}

----
\* computeLights: phase -> (ns, ew, walkOn)
computeLights_walkKeepsGreen(p) ==
    CASE p = "NS_Green"  -> [ns |-> "Green",  ew |-> "Red",    walkOn |-> FALSE]
      [] p = "NS_Yellow" -> [ns |-> "Yellow", ew |-> "Red",    walkOn |-> FALSE]
      [] p = "EW_Green"  -> [ns |-> "Red",    ew |-> "Green",  walkOn |-> FALSE]
      [] p = "EW_Yellow" -> [ns |-> "Red",    ew |-> "Yellow", walkOn |-> FALSE]
      [] p \in {"All_Red_1", "All_Red_2"}
                         -> [ns |-> "Red",    ew |-> "Red",    walkOn |-> FALSE]
      [] p = "Ped_Walk"  -> [ns |-> "Green",  ew |-> "Red",    walkOn |-> TRUE]

computeLights(p) ==
    CASE p = "NS_Green"  -> [ns |-> "Green",  ew |-> "Red",    walkOn |-> FALSE]
      [] p = "NS_Yellow" -> [ns |-> "Yellow", ew |-> "Red",    walkOn |-> FALSE]
      [] p = "EW_Green"  -> [ns |-> "Red",    ew |-> "Green",  walkOn |-> FALSE]
      [] p = "EW_Yellow" -> [ns |-> "Red",    ew |-> "Yellow", walkOn |-> FALSE]
      [] p \in {"All_Red_1", "All_Red_2"}
                         -> [ns |-> "Red",    ew |-> "Red",    walkOn |-> FALSE]
      [] p = "Ped_Walk"  -> [ns |-> "Red",    ew |-> "Red",    walkOn |-> TRUE]

\* durationForPhase with the default Config
durationForPhase_allRed2Long(p) ==
    CASE p = "NS_Green"  -> nsGreenSec
      [] p = "NS_Yellow" -> nsYellowSec
      [] p = "All_Red_1" -> allRedSec
      [] p = "EW_Green"  -> ewGreenSec
      [] p = "EW_Yellow" -> ewYellowSec
      [] p = "All_Red_2" -> nsYellowSec
      [] p = "Ped_Walk"  -> pedWalkSec

durationForPhase(p) ==
    CASE p = "NS_Green"  -> nsGreenSec
      [] p = "NS_Yellow" -> nsYellowSec
      [] p = "All_Red_1" -> allRedSec
      [] p = "EW_Green"  -> ewGreenSec
      [] p = "EW_Yellow" -> ewYellowSec
      [] p = "All_Red_2" -> allRedSec
      [] p = "Ped_Walk"  -> pedWalkSec

\* nextNormalPhase
nextNormalPhase_walkToEW(p) ==
    CASE p = "NS_Green"  -> "NS_Yellow"
      [] p = "NS_Yellow" -> "All_Red_1"
      [] p = "All_Red_1" -> "EW_Green"
      [] p = "EW_Green"  -> "EW_Yellow"
      [] p = "EW_Yellow" -> "All_Red_2"
      [] p = "All_Red_2" -> "NS_Green"
      [] p = "Ped_Walk"  -> "EW_Green"

nextNormalPhase_skipsAllRed(p) ==
    CASE p = "NS_Green"  -> "NS_Yellow"
      [] p = "NS_Yellow" -> "EW_Green"
      [] p = "All_Red_1" -> "EW_Green"
      [] p = "EW_Green"  -> "EW_Yellow"
      [] p = "EW_Yellow" -> "All_Red_2"
      [] p = "All_Red_2" -> "NS_Green"
      [] p = "Ped_Walk"  -> "NS_Green"

nextNormalPhase_shortCycle(p) ==
    CASE p = "NS_Green"  -> "NS_Yellow"
      [] p = "NS_Yellow" -> "All_Red_1"
      [] p = "All_Red_1" -> "EW_Green"
      [] p = "EW_Green"  -> "EW_Yellow"
      [] p = "EW_Yellow" -> "NS_Green"
      [] p = "All_Red_2" -> "NS_Green"
      [] p = "Ped_Walk"  -> "NS_Green"

nextNormalPhase(p) ==
    CASE p = "NS_Green"  -> "NS_Yellow"
      [] p = "NS_Yellow" -> "All_Red_1"
      [] p = "All_Red_1" -> "EW_Green"
      [] p = "EW_Green"  -> "EW_Yellow"
      [] p = "EW_Yellow" -> "All_Red_2"
      [] p = "All_Red_2" -> "NS_Green"
      [] p = "Ped_Walk"  -> "NS_Green"

\* printStatus: the status line for a snapshot
printStatus(s) ==
    [phase |-> s.phase,
     ns |-> computeLights(s.phase).ns,
     ew |-> computeLights(s.phase).ew,
     walkOn |-> computeLights(s.phase).walkOn,
     pedReq |-> s.pedRequested]

AllRed == {"All_Red_1", "All_Red_2"}

----
\* State after construction of Config and SharedState, both threads started
Init ==
    /\ phase = "NS_Green"
    /\ pedRequested = FALSE
    /\ running = TRUE
    /\ mtx = "free"
    /\ cpc = "while"
    /\ snap = [phase |-> "NS_Green", pedRequested |-> FALSE]
    /\ holdSec = 0
    /\ i = 0
    /\ out = << >>
    /\ ipc = "while"
    /\ line = ""
    /\ mpc = "join_input"
    /\ pLines = 0
    /\ pedSets = 0
    /\ walkEntries = 0
    /\ walkFrom = "none"
    /\ sinceGate = 0
    /\ sinceNSGreen = 0
    /\ slicesAfterStop = 0

----
\* controllerThread

\* while (st.running.load())
CtrlWhile ==
    /\ cpc = "while"
    /\ cpc' = IF running THEN "snap_lock" ELSE "done"
    /\ UNCHANGED <<phase, pedRequested, running, mtx, snap, holdSec, i, out,
                   inputVars, mpc, obsVars>>

\* std::lock_guard lk(st.mtx) of the snapshot block
CtrlSnapLock ==
    /\ cpc = "snap_lock"
    /\ mtx = "free"
    /\ mtx' = "controller"
    /\ cpc' = "snap"
    /\ UNCHANGED <<phase, pedRequested, running, snap, holdSec, i, out,
                   inputVars, mpc, obsVars>>

\* snap.phase = st.phase; snap.pedRequested = st.pedRequested
CtrlSnapshot_consumes ==
    /\ cpc = "snap"
    /\ snap' = [phase |-> phase, pedRequested |-> pedRequested]
    /\ pedRequested' = FALSE
    /\ cpc' = "snap_unlock"
    /\ UNCHANGED <<phase, running, mtx, holdSec, i, out,
                   inputVars, mpc, obsVars>>

CtrlSnapshot_stalePhase ==
    /\ cpc = "snap"
    /\ snap' = [phase |-> snap.phase, pedRequested |-> pedRequested]
    /\ cpc' = "snap_unlock"
    /\ UNCHANGED <<phase, pedRequested, running, mtx, holdSec, i, out,
                   inputVars, mpc, obsVars>>

CtrlSnapshot ==
    /\ cpc = "snap"
    /\ snap' = [phase |-> phase, pedRequested |-> pedRequested]
    /\ cpc' = "snap_unlock"
    /\ UNCHANGED <<phase, pedRequested, running, mtx, holdSec, i, out,
                   inputVars, mpc, obsVars>>

\* end of the snapshot block: the lock_guard releases the mutex
CtrlSnapUnlock_keepsLock ==
    /\ cpc = "snap_unlock"
    /\ mtx' = mtx
    /\ cpc' = "print"
    /\ UNCHANGED <<phase, pedRequested, running, snap, holdSec, i, out,
                   inputVars, mpc, obsVars>>

CtrlSnapUnlock ==
    /\ cpc = "snap_unlock"
    /\ mtx' = "free"
    /\ cpc' = "print"
    /\ UNCHANGED <<phase, pedRequested, running, snap, holdSec, i, out,
                   inputVars, mpc, obsVars>>

\* printStatus(snap); holdSec = durationForPhase(cfg, snap.phase); i = 0
CtrlPrint ==
    /\ cpc = "print"
    /\ out' = <<printStatus(snap)>>
    /\ holdSec' = durationForPhase(snap.phase)
    /\ i' = 0
    /\ cpc' = "for"
    /\ UNCHANGED <<phase, pedRequested, running, mtx, snap,
                   inputVars, mpc, obsVars>>

\* for (...; i < holdSec; ...)
CtrlFor ==
    /\ cpc = "for"
    /\ cpc' = IF i < holdSec THEN "check" ELSE "trans_lock"
    /\ UNCHANGED <<phase, pedRequested, running, mtx, snap, holdSec, i, out,
                   inputVars, mpc, obsVars>>

\* if (!st.running.load()) return;
CtrlCheck_noReturn ==
    /\ cpc = "check"
    /\ cpc' = "sleep"
    /\ UNCHANGED <<phase, pedRequested, running, mtx, snap, holdSec, i, out,
                   inputVars, mpc, obsVars>>

CtrlCheck ==
    /\ cpc = "check"
    /\ cpc' = IF ~running THEN "done" ELSE "sleep"
    /\ UNCHANGED <<phase, pedRequested, running, mtx, snap, holdSec, i, out,
                   inputVars, mpc, obsVars>>

\* std::this_thread::sleep_for(1s); ++i
CtrlSleep ==
    /\ cpc = "sleep"
    /\ i' = i + 1
    /\ cpc' = "for"
    /\ sinceGate' = Min(sinceGate + 1, CapSlices)
    /\ sinceNSGreen' = Min(sinceNSGreen + 1, CapSlices)
    /\ slicesAfterStop' = IF running THEN slicesAfterStop
                          ELSE Min(slicesAfterStop + 1, CapStop)
    /\ UNCHANGED <<phase, pedRequested, running, mtx, snap, holdSec, out,
                   inputVars, mpc, pedSets, walkEntries, walkFrom>>

\* std::lock_guard lk(st.mtx) of the transition block
CtrlTransLock ==
    /\ cpc = "trans_lock"
    /\ mtx = "free"
    /\ mtx' = "controller"
    /\ cpc' = "gate"
    /\ UNCHANGED <<phase, pedRequested, running, snap, holdSec, i, out,
                   inputVars, mpc, obsVars>>

\* atAllRed = ...; if (atAllRed && st.pedRequested) { st.pedRequested = false;
CtrlGate_anyPhase ==
    /\ cpc = "gate"
    /\ IF pedRequested
         THEN /\ pedRequested' = FALSE
              /\ cpc' = "walk"
         ELSE /\ pedRequested' = pedRequested
              /\ cpc' = "next"
    /\ IF phase \in AllRed
         THEN /\ walkFrom' = IF pedRequested THEN phase ELSE "none"
              /\ sinceGate' = 0
         ELSE UNCHANGED <<walkFrom, sinceGate>>
    /\ UNCHANGED <<phase, running, mtx, snap, holdSec, i, out,
                   inputVars, mpc, pedSets, walkEntries, sinceNSGreen,
                   slicesAfterStop>>

CtrlGate_dropsRequest ==
    /\ cpc = "gate"
    /\ LET atAllRed == phase \in AllRed IN
         /\ IF atAllRed /\ pedRequested
              THEN /\ pedRequested' = FALSE
                   /\ cpc' = "walk"
              ELSE /\ pedRequested' = FALSE
                   /\ cpc' = "next"
         /\ IF atAllRed
              THEN /\ walkFrom' = IF pedRequested THEN phase ELSE "none"
                   /\ sinceGate' = 0
              ELSE UNCHANGED <<walkFrom, sinceGate>>
    /\ UNCHANGED <<phase, running, mtx, snap, holdSec, i, out,
                   inputVars, mpc, pedSets, walkEntries, sinceNSGreen,
                   slicesAfterStop>>

CtrlGate_keepsRequest ==
    /\ cpc = "gate"
    /\ LET atAllRed == phase \in AllRed IN
         /\ IF atAllRed /\ pedRequested
              THEN /\ pedRequested' = pedRequested
                   /\ cpc' = "walk"
              ELSE /\ pedRequested' = pedRequested
                   /\ cpc' = "next"
         /\ IF atAllRed
              THEN /\ walkFrom' = IF pedRequested THEN phase ELSE "none"
                   /\ sinceGate' = 0
              ELSE UNCHANGED <<walkFrom, sinceGate>>
    /\ UNCHANGED <<phase, running, mtx, snap, holdSec, i, out,
                   inputVars, mpc, pedSets, walkEntries, sinceNSGreen,
                   slicesAfterStop>>

CtrlGate_usesSnapshot ==
    /\ cpc = "gate"
    /\ LET atAllRed == phase \in AllRed IN
         /\ IF atAllRed /\ snap.pedRequested
              THEN /\ pedRequested' = FALSE
                   /\ cpc' = "walk"
              ELSE /\ pedRequested' = pedRequested
                   /\ cpc' = "next"
         /\ IF atAllRed
              THEN /\ walkFrom' = IF snap.pedRequested THEN phase ELSE "none"
                   /\ sinceGate' = 0
              ELSE UNCHANGED <<walkFrom, sinceGate>>
    /\ UNCHANGED <<phase, running, mtx, snap, holdSec, i, out,
                   inputVars, mpc, pedSets, walkEntries, sinceNSGreen,
                   slicesAfterStop>>

CtrlGate ==
    /\ cpc = "gate"
    /\ LET atAllRed == phase \in AllRed IN
         /\ IF atAllRed /\ pedRequested
              THEN /\ pedRequested' = FALSE
                   /\ cpc' = "walk"
              ELSE /\ pedRequested' = pedRequested
                   /\ cpc' = "next"
         /\ IF atAllRed
              THEN /\ walkFrom' = IF pedRequested THEN phase ELSE "none"
                   /\ sinceGate' = 0
              ELSE UNCHANGED <<walkFrom, sinceGate>>
    /\ UNCHANGED <<phase, running, mtx, snap, holdSec, i, out,
                   inputVars, mpc, pedSets, walkEntries, sinceNSGreen,
                   slicesAfterStop>>

\* st.phase = Phase::Ped_Walk; }
CtrlWalk ==
    /\ cpc = "walk"
    /\ phase' = "Ped_Walk"
    /\ walkEntries' = Min(walkEntries + 1, MaxPLines)
    /\ cpc' = "trans_unlock"
    /\ UNCHANGED <<pedRequested, running, mtx, snap, holdSec, i, out,
                   inputVars, mpc, pedSets, walkFrom, sinceGate,
                   sinceNSGreen, slicesAfterStop>>

\* else { st.phase = nextNormalPhase(st.phase); }
CtrlNext ==
    /\ cpc = "next"
    /\ phase' = nextNormalPhase(phase)
    /\ sinceNSGreen' = IF phase' = "NS_Green" THEN 0 ELSE sinceNSGreen
    /\ cpc' = "trans_unlock"
    /\ UNCHANGED <<pedRequested, running, mtx, snap, holdSec, i, out,
                   inputVars, mpc, pedSets, walkEntries, walkFrom, sinceGate,
                   slicesAfterStop>>

\* end of the transition block: the lock_guard releases the mutex
CtrlTransUnlock ==
    /\ cpc = "trans_unlock"
    /\ mtx' = "free"
    /\ cpc' = "while"
    /\ UNCHANGED <<phase, pedRequested, running, snap, holdSec, i, out,
                   inputVars, mpc, obsVars>>

controllerThread ==
    \/ CtrlWhile \/ CtrlSnapLock \/ CtrlSnapshot \/ CtrlSnapUnlock
    \/ CtrlPrint \/ CtrlFor \/ CtrlCheck \/ CtrlSleep
    \/ CtrlTransLock \/ CtrlGate \/ CtrlWalk \/ CtrlNext \/ CtrlTransUnlock

----
\* inputThread

\* while (st.running.load() && ...
InWhile ==
    /\ ipc = "while"
    /\ ipc' = IF running THEN "getline" ELSE "final"
    /\ UNCHANGED <<phase, pedRequested, running, mtx, ctrlVars, line, pLines,
                   mpc, obsVars>>

\* ... && std::getline(std::cin, line)) : a line is read
InGetline ==
    /\ ipc = "getline"
    /\ \E l \in Lines :
         /\ line' = l
         /\ pLines' = IF l = "p" THEN Min(pLines + 1, MaxPLines) ELSE pLines
    /\ ipc' = "dispatch"
    /\ UNCHANGED <<phase, pedRequested, running, mtx, ctrlVars, mpc, obsVars>>

\* ... && std::getline(std::cin, line)) : end of input
InEof ==
    /\ ipc = "getline"
    /\ ipc' = "final"
    /\ UNCHANGED <<phase, pedRequested, running, mtx, ctrlVars, line, pLines,
                   mpc, obsVars>>

\* if (line == "q" || line == "quit" || line == "exit") { running = false; break; }
InQuit ==
    /\ ipc = "dispatch"
    /\ line \in QuitLines
    /\ running' = FALSE
    /\ ipc' = "final"
    /\ UNCHANGED <<phase, pedRequested, mtx, ctrlVars, line, pLines,
                   mpc, obsVars>>

\* if (line == "p") { std::lock_guard lk(st.mtx);
InLock_noMutex ==
    /\ ipc = "dispatch"
    /\ line = "p"
    /\ mtx' = "input"
    /\ ipc' = "set"
    /\ UNCHANGED <<phase, pedRequested, running, ctrlVars, line, pLines,
                   mpc, obsVars>>

InLock ==
    /\ ipc = "dispatch"
    /\ line = "p"
    /\ mtx = "free"
    /\ mtx' = "input"
    /\ ipc' = "set"
    /\ UNCHANGED <<phase, pedRequested, running, ctrlVars, line, pLines,
                   mpc, obsVars>>

\* st.pedRequested = true;
InSet_toggles ==
    /\ ipc = "set"
    /\ pedRequested' = ~pedRequested
    /\ pedSets' = IF pedRequested THEN pedSets
                  ELSE Min(pedSets + 1, MaxPLines)
    /\ ipc' = "unlock"
    /\ UNCHANGED <<phase, running, mtx, ctrlVars, line, pLines, mpc,
                   walkEntries, walkFrom, sinceGate, sinceNSGreen,
                   slicesAfterStop>>

InSet ==
    /\ ipc = "set"
    /\ pedRequested' = TRUE
    /\ pedSets' = IF pedRequested THEN pedSets
                  ELSE Min(pedSets + 1, MaxPLines)
    /\ ipc' = "unlock"
    /\ UNCHANGED <<phase, running, mtx, ctrlVars, line, pLines, mpc,
                   walkEntries, walkFrom, sinceGate, sinceNSGreen,
                   slicesAfterStop>>

\* std::cout << "[input] Pedestrian request queued."; }  (lock released)
InUnlock ==
    /\ ipc = "unlock"
    /\ mtx' = "free"
    /\ ipc' = "while"
    /\ UNCHANGED <<phase, pedRequested, running, ctrlVars, line, pLines,
                   mpc, obsVars>>

\* else if (!line.empty()) { diagnostic }  /  empty line: nothing
InOther ==
    /\ ipc = "dispatch"
    /\ line \notin QuitLines
    /\ line # "p"
    /\ ipc' = "while"
    /\ UNCHANGED <<phase, pedRequested, running, mtx, ctrlVars, line, pLines,
                   mpc, obsVars>>

\* st.running.store(false) after the loop
InFinal_noStore ==
    /\ ipc = "final"
    /\ running' = running
    /\ ipc' = "done"
    /\ UNCHANGED <<phase, pedRequested, mtx, ctrlVars, line, pLines,
                   mpc, obsVars>>

InFinal ==
    /\ ipc = "final"
    /\ running' = FALSE
    /\ ipc' = "done"
    /\ UNCHANGED <<phase, pedRequested, mtx, ctrlVars, line, pLines,
                   mpc, obsVars>>

inputThread ==
    \/ InWhile \/ InGetline \/ InEof \/ InQuit \/ InLock \/ InSet
    \/ InUnlock \/ InOther \/ InFinal

----
\* main

\* tInput.join()
MainJoinInput ==
    /\ mpc = "join_input"
    /\ ipc = "done"
    /\ mpc' = "store"
    /\ UNCHANGED <<phase, pedRequested, running, mtx, ctrlVars, inputVars,
                   obsVars>>

\* state.running.store(false)
MainStore_storesTrue ==
    /\ mpc = "store"
    /\ running' = TRUE
    /\ mpc' = "join_controller"
    /\ UNCHANGED <<phase, pedRequested, mtx, ctrlVars, inputVars, obsVars>>

MainStore ==
    /\ mpc = "store"
    /\ running' = FALSE
    /\ mpc' = "join_controller"
    /\ UNCHANGED <<phase, pedRequested, mtx, ctrlVars, inputVars, obsVars>>

\* tController.join(); "Shutting down cleanly."; return 0
MainJoinController ==
    /\ mpc = "join_controller"
    /\ cpc = "done"
    /\ mpc' = "exit"
    /\ UNCHANGED <<phase, pedRequested, running, mtx, ctrlVars, inputVars,
                   obsVars>>

main ==
    \/ MainJoinInput \/ MainStore \/ MainJoinController

----
Next == controllerThread \/ inputThread \/ main

Spec == Init /\ [][Next]_vars

\* Scheduling: every thread that can take a step eventually takes one, and a
\* thread waiting for the mutex gets it when it is free again and again.
\* Reading a line (InGetline, InEof) waits for the user and is not forced.
Fairness ==
    /\ WF_vars(controllerThread)
    /\ SF_vars(CtrlSnapLock)
    /\ SF_vars(CtrlTransLock)
    /\ WF_vars(InWhile \/ InQuit \/ InSet \/ InUnlock \/ InOther \/ InFinal)
    /\ SF_vars(InLock)
    /\ WF_vars(main)

FairSpec == Init /\ [][Next]_vars /\ Fairness

TypeOK ==
    /\ phase \in Phase
    /\ pedRequested \in BOOLEAN
    /\ running \in BOOLEAN
    /\ mtx \in {"free", "controller", "input"}
    /\ snap \in [phase : Phase, pedRequested : BOOLEAN]
    /\ holdSec \in 0..10
    /\ i \in 0..holdSec
    /\ line \in Lines
    /\ pLines \in 0..MaxPLines

----
\* Properties

\* C1: in every reachable state the lights computed from the current phase,
\* and the lights of the last status line printed, never have walk on while
\* the NS or the EW light is Green or Yellow.
C1_WalkNeverWithGreenOrYellow ==
    /\ LET l == computeLights(phase) IN
         l.walkOn => (l.ns \notin {"Green", "Yellow"} /\ l.ew \notin {"Green", "Yellow"})
    /\ \A k \in DOMAIN out :
         out[k].walkOn => (out[k].ns \notin {"Green", "Yellow"}
                           /\ out[k].ew \notin {"Green", "Yellow"})

C1_Witness ==
    /\ phase = "Ped_Walk"
    /\ out # << >>
    /\ out[1].walkOn
    /\ pLines >= 2

\* C2: phase becomes Ped_Walk only in the controller's transition block, from
\* All_Red_1 or All_Red_2, after a gate decision taken under the lock with
\* pedRequested true, the pair being untouched between the decision and the
\* write; the transition block never writes Ped_Walk from another phase.
C2_WalkOnlyFromAllRedWithPending ==
    [][ /\ (phase' = "Ped_Walk" /\ phase # "Ped_Walk")
             => (phase \in AllRed /\ cpc = "walk")
        /\ (cpc' = "walk" /\ cpc # "walk")
             => (phase \in AllRed /\ pedRequested /\ mtx = "controller")
        /\ (cpc = "walk")
             => (pedRequested' = pedRequested /\ phase' \in {phase, "Ped_Walk"})
        /\ (cpc \in {"walk", "next"} /\ cpc' # cpc /\ phase \notin AllRed)
             => phase' # "Ped_Walk"
      ]_vars

C2_Witness ==
    /\ phase = "Ped_Walk"
    /\ walkFrom = "All_Red_2"
    /\ cpc = "trans_unlock"

\* C3: once a 1-second slice of the hold has ended with running false, the
\* controller writes neither phase nor pedRequested any more (it returns
\* without the transition), also when that slice was the last of the hold.
C3_NoWriteAfterStop ==
    [][ (slicesAfterStop >= 1 /\ cpc' # cpc)
          => (phase' = phase /\ pedRequested' = pedRequested) ]_vars

\* C4: pedRequested changes from true to false only in the gate step of an
\* all-red phase that goes on to write Ped_Walk, and no step leaves an
\* all-red phase for a phase other than Ped_Walk while a request is pending.
C4_RequestNeverDropped ==
    [][ /\ (pedRequested /\ ~pedRequested')
             => (phase \in AllRed /\ cpc = "gate" /\ cpc' = "walk")
        /\ (cpc = "walk" /\ cpc' # cpc) => phase' = "Ped_Walk"
        /\ (phase \in AllRed /\ phase' # phase /\ phase' # "Ped_Walk")
             => (~pedRequested /\ ~pedRequested')
      ]_vars

C4_Witness ==
    /\ phase = "Ped_Walk"
    /\ walkFrom = "All_Red_1"
    /\ walkEntries = 1
    /\ pedSets = 1
    /\ ~pedRequested

HalfCycle == nsGreenSec + nsYellowSec + allRedSec

\* C5 (original): every all-red gate check comes at most one half-cycle
\* (14 slices) after the previous one and services a pending request.
C5_GateWithinHalfCycle ==
    [][ (cpc = "gate" /\ cpc' # cpc /\ phase \in AllRed)
          => /\ sinceGate <= HalfCycle
             /\ pedRequested => cpc' = "walk" ]_vars

\* C5 (amended): every all-red gate check services a pending request and
\* comes at most one half-cycle (14 slices) after the previous all-red gate
\* check when that one took the normal progression, and at most the Ped_Walk
\* hold plus one half-cycle (20 slices) when that one entered Ped_Walk.
C5_GateWithinHalfCycleOrWalk ==
    [][ (cpc = "gate" /\ cpc' # cpc /\ phase \in AllRed)
          => /\ sinceGate <= IF walkFrom = "none" THEN HalfCycle
                             ELSE pedWalkSec + HalfCycle
             /\ pedRequested => cpc' = "walk" ]_vars

C5_Witness ==
    /\ cpc = "gate"
    /\ phase \in AllRed
    /\ pedRequested
    /\ walkFrom # "none"
    /\ sinceGate = pedWalkSec + HalfCycle

\* C6: every step that changes phase away from Ped_Walk sets it to NS_Green:
\* in Ped_Walk the gate takes the normal progression even when a request is
\* pending, and the transition block then writes NS_Green.
C6_WalkThenNSGreen ==
    [][ /\ (phase = "Ped_Walk" /\ phase' # phase) => phase' = "NS_Green"
        /\ (phase = "Ped_Walk" /\ cpc = "gate" /\ cpc' # cpc)
             => (cpc' = "next" /\ pedRequested' = pedRequested)
        /\ (phase = "Ped_Walk" /\ cpc = "next" /\ cpc' # cpc)
             => phase' = "NS_Green"
      ]_vars

C6_Witness ==
    /\ phase = "NS_Green"
    /\ cpc = "trans_unlock"
    /\ walkFrom = "All_Red_1"
    /\ sinceNSGreen = 0
    /\ pedRequested

\* C7: the number of entries into Ped_Walk never exceeds the number of
\* false-to-true changes of pedRequested; while the counts are below their
\* saturation every such change is matched by the pending flag, by a walk
\* being entered, or by one entry into Ped_Walk.
C7_NoRequestConsumedTwice ==
    /\ walkEntries <= pedSets
    /\ pedSets < MaxPLines =>
         pedSets = walkEntries + (IF pedRequested THEN 1 ELSE 0)
                               + (IF cpc = "walk" THEN 1 ELSE 0)

C7_Witness ==
    /\ pLines >= 2
    /\ ipc = "while"
    /\ pedSets = 1
    /\ walkEntries = 1
    /\ phase = "Ped_Walk"
    /\ ~pedRequested

\* C8: the controller completes at most one 1-second slice while running is
\* false, and after such a slice it is never in a sleep slice again.
C8_StopWithinOneSlice ==
    /\ slicesAfterStop <= 1
    /\ slicesAfterStop >= 1 => cpc # "sleep"

C8_Witness ==
    /\ slicesAfterStop = 1
    /\ cpc = "done"
    /\ i < holdSec

ScenarioAOrder ==
    {<<"NS_Green", "NS_Yellow">>, <<"NS_Yellow", "All_Red_1">>,
     <<"All_Red_1", "EW_Green">>, <<"EW_Green", "EW_Yellow">>,
     <<"EW_Yellow", "All_Red_2">>, <<"All_Red_2", "NS_Green">>}

ScenarioAHold ==
    [p \in Phase |->
        CASE p = "NS_Green" -> 10 [] p = "NS_Yellow" -> 3 [] p = "All_Red_1" -> 1
          [] p = "EW_Green" -> 10 [] p = "EW_Yellow" -> 3 [] p = "All_Red_2" -> 1
          [] OTHER -> 0]

\* C9: as long as no request has been set and running is true, Ped_Walk is
\* not the phase, every change of phase follows NS_Green, NS_Yellow,
\* All_Red_1, EW_Green, EW_Yellow, All_Red_2, NS_Green after exactly 10, 3,
\* 1, 10, 3 and 1 slices, and NS_Green is re-entered after 28 slices.
C9_ScenarioA ==
    /\ [](pedSets = 0 => phase # "Ped_Walk")
    /\ [][ (pedSets = 0 /\ running /\ phase' # phase)
             => /\ <<phase, phase'>> \in ScenarioAOrder
                /\ i = ScenarioAHold[phase]
                /\ phase' = "NS_Green" => sinceNSGreen = 28 ]_vars

C9_Witness ==
    /\ phase = "NS_Green"
    /\ out # << >>
    /\ out[1].phase = "All_Red_2"
    /\ sinceNSGreen = 0
    /\ pedSets = 0
    /\ running

\* C10: a request set during NS_Green stays pending through NS_Green and
\* NS_Yellow, is consumed by the gate of All_Red_1, and the Ped_Walk entered
\* from All_Red_1 is left after 6 slices for EW_Green.
C10_ScenarioB ==
    [][ /\ (pedRequested /\ phase \in {"NS_Green", "NS_Yellow"}) => pedRequested'
        /\ (phase = "All_Red_1" /\ cpc = "gate" /\ cpc' # cpc /\ pedRequested)
             => (cpc' = "walk" /\ ~pedRequested')
        /\ (phase = "Ped_Walk" /\ walkFrom = "All_Red_1" /\ phase' # phase)
             => (i = 6 /\ phase' = "EW_Green")
      ]_vars

CtrlLocked == {"snap", "snap_unlock", "gate", "walk", "next", "trans_unlock"}
CtrlHolding == {"print", "for", "check", "sleep"}
InLocked == {"set", "unlock"}

\* C11: in an all-red phase the transition block takes the normal
\* progression only when no request is pending at that moment, whatever the
\* snapshot of the slot recorded: a request set before the transition lock is
\* taken is consumed by the gate of the same slot.
C11_SameSlotService ==
    /\ (phase \in AllRed /\ cpc = "next") => (~pedRequested /\ mtx = "controller")
    /\ (phase \in AllRed /\ cpc = "walk") => (~pedRequested /\ mtx = "controller")

C11_Witness ==
    /\ cpc = "walk"
    /\ phase = "All_Red_1"
    /\ snap.phase = "All_Red_1"
    /\ ~snap.pedRequested
    /\ pedSets = 1

NormalPhases == Phase \ {"Ped_Walk"}

CycleOrder == <<"NS_Green", "NS_Yellow", "All_Red_1", "EW_Green", "EW_Yellow",
                "All_Red_2">>

RECURSIVE Iterate(_, _)
Iterate(p, n) == IF n = 0 THEN p ELSE Iterate(nextNormalPhase(p), n - 1)

\* C12: on the six phases other than Ped_Walk nextNormalPhase is a single
\* 6-cycle in the order NS_Green, NS_Yellow, All_Red_1, EW_Green, EW_Yellow,
\* All_Red_2: six applications return to the start, fewer do not; this holds
\* in particular for the phase the controller is in.
C12_SixCycle ==
    /\ \A p \in NormalPhases :
         /\ Iterate(p, 6) = p
         /\ \A n \in 1..5 : Iterate(p, n) # p /\ Iterate(p, n) \in NormalPhases
    /\ \A n \in 0..5 : Iterate("NS_Green", n) = CycleOrder[n + 1]
    /\ phase \in NormalPhases => Iterate(phase, 6) = phase

C12_Witness ==
    /\ phase = "NS_Green"
    /\ cpc = "while"
    /\ snap.phase = "All_Red_2"
    /\ walkEntries = 0
    /\ sinceNSGreen = 0

\* C13: a pedestrian request performed while pedRequested is already true
\* (lock, set, unlock) leaves phase, pedRequested and running unchanged and
\* counts no new request.
C13_RequestIdempotent ==
    [][ (pedRequested /\ ipc' # ipc /\ ipc \in {"dispatch", "set", "unlock"}
           /\ line = "p")
          => (phase' = phase /\ pedRequested' = pedRequested
              /\ running' = running /\ pedSets' = pedSets) ]_vars

C13_Witness ==
    /\ ipc = "unlock"
    /\ pLines = 2
    /\ pedSets = 1
    /\ walkEntries = 0
    /\ pedRequested

\* C14: no step of the input thread changes phase; phase changes only in the
\* write step of the controller's transition block; pedRequested becomes true
\* only in the input thread's set step and becomes false only in the gate
\* step that goes on, under the same lock, to write Ped_Walk.
C14_SingleWriter ==
    [][ /\ (ipc' # ipc) => phase' = phase
        /\ (phase' # phase)
             => (cpc \in {"walk", "next"} /\ cpc' = "trans_unlock")
        /\ (~pedRequested /\ pedRequested')
             => (ipc = "set" /\ ipc' = "unlock" /\ mtx = "input")
        /\ (pedRequested /\ ~pedRequested')
             => (cpc = "gate" /\ cpc' = "walk" /\ mtx = "controller"
                 /\ mtx' = "controller")
      ]_vars

C14_Witness ==
    /\ ipc = "unlock"
    /\ pedRequested
    /\ phase = "EW_Green"
    /\ pedSets = 2
    /\ walkEntries = 1

\* C15: the controller owns the mutex exactly in the snapshot block and in
\* the transition block, never in the hold; an input thread that has read
\* "p" during the hold finds the mutex free.
C15_NoLockAcrossHold ==
    /\ (mtx = "controller") <=> (cpc \in CtrlLocked)
    /\ (cpc \in CtrlHolding /\ ipc = "dispatch" /\ line = "p") => mtx = "free"

C15_Witness ==
    /\ cpc = "sleep"
    /\ ipc = "set"
    /\ mtx = "input"
    /\ ~pedRequested

\* C16: the controller and the input thread are never inside lock-guarded
\* sections at the same time, and while the pedestrian transition is half
\* done (pedRequested cleared, phase still all-red) the controller owns the
\* mutex and the input thread is outside its guarded section.
C16_MutualExclusion ==
    /\ ~(cpc \in CtrlLocked /\ ipc \in InLocked)
    /\ (ipc \in InLocked) => mtx = "input"
    /\ (cpc \in CtrlLocked) => mtx = "controller"
    /\ (cpc = "walk") => (phase \in AllRed /\ ~pedRequested /\ ipc \notin InLocked)

C16_Witness ==
    /\ cpc = "walk"
    /\ ipc = "dispatch"
    /\ line = "p"

\* C17: running is true initially and no step changes it from false to true.
C17_RunningMonotone ==
    /\ running = TRUE
    /\ [][ ~running => ~running' ]_vars

C17_Witness ==
    /\ ~running
    /\ mpc = "exit"
    /\ line \in QuitLines

\* C18: under fair scheduling, if running stays true then NS_Green and
\* EW_Green are both the phase infinitely often.
C18_NoStarvation ==
    ([]running) => ([]<>(phase = "NS_Green") /\ []<>(phase = "EW_Green"))

\* C19: from the snapshot to the write of the transition block the shared
\* phase equals the snapshot's phase, and every change of phase happens after
\* exactly durationForPhase(phase) slices of the hold loop.
C19_SnapshotPhaseStable ==
    /\ [](cpc \in (CtrlHolding \cup {"snap_unlock", "trans_lock", "gate", "walk", "next"})
            => phase = snap.phase)
    /\ [][ (phase' # phase)
             => (i = durationForPhase(phase) /\ holdSec = durationForPhase(phase)) ]_vars

C19_Witness ==
    /\ cpc = "gate"
    /\ phase = "All_Red_2"
    /\ snap.phase = "All_Red_2"
    /\ i = allRedSec
    /\ pedRequested
    /\ ~snap.pedRequested

\* C20: once the input thread has finished running is false, and under fair
\* scheduling the controller then terminates and main reaches its exit.
C20_CleanShutdown ==
    /\ [](ipc = "done" => ~running)
    /\ (ipc = "done") ~> (cpc = "done" /\ mpc = "exit")

C20_Witness ==
    /\ mpc = "exit"
    /\ cpc = "done"
    /\ ipc = "done"
    /\ line = "p"

====
